---- MODULE Spec2Model ----
(***************************************************************************)
(* Perpetua: the turn scheduler of the Home component (the variant with    *)
(* abort controllers, pausedRef and a model-generated opening topic)       *)
(* together with the result contract of generateResponse of the axios      *)
(* completion client.                                                      *)
(*                                                                         *)
(* One action is one run-to-completion step of the JavaScript event loop:  *)
(* an operator handler, a timer callback or the continuation of an         *)
(* awaited generateResponse call, followed by the React re-render and the  *)
(* effects whose dependencies changed.                                     *)
(***************************************************************************)
EXTENDS Integers, Sequences, FiniteSets, TLC

\* ---------------------------------------------------------------- bounds
MaxCalls == 3        \* generateResponse invocations in one behaviour
MaxMsgs == 2         \* length of the transcript
MaxStale == 1        \* cancelled calls that have not resolved yet
MaxPersonaChanges == 1   \* agents whose persona differs from the initial one
MaxSeconds == 90     \* how far the clock of the client model runs

\* ------------------------------------------------------------- constants
Agents == {"agent1", "agent2"}
PersonaKeys == {"optimistic", "analytical"}
RespTexts == {"a"}               \* non-empty texts the provider may answer
OpTexts == {"Why?"}              \* validated operator prompts

NoError == "null"
NoTopic == "null"
Cancelled == "Generation cancelled"
ErrFailed == "Failed to generate response. Please try again."
ErrLater == "Failed to generate response. Please try again later."
TopicRequest == "Generate a deep philosophical question or topic for discussion."
TopicPersona == "philosopher"
FallbackTopic == "What is the nature of reality?"
philosophicalPrompts == {"What is the nature of consciousness?", "Does free will truly exist?"}

NoMsg == [text |-> "", agent |-> "none"]
Message(t, a) == [text |-> t, agent |-> a]

\* personas[key].name
PersonaName(key) ==
    CASE key = "optimistic" -> "Optimistic"
      [] key = "analytical" -> "Analytical"
      [] OTHER -> "Unknown"

InitialPersonas == [a \in Agents |-> IF a = "agent1" THEN "optimistic" ELSE "analytical"]

\* what the provider may do with one attempt that is not cancelled
Outcomes == [kind : {"ok"}, text : RespTexts]
            \cup {[kind |-> "empty", text |-> ""],
                  [kind |-> "fail", text |-> ""]}

VARIABLES
    messages,           \* useState<Message[]>
    isLoading,          \* useState(false)
    isPaused,           \* useState(false)
    error,              \* useState<string | null>
    currentTopic,       \* useState<string | null>
    selectedPersonas,   \* useState({agent1, agent2})
    timeoutRef,         \* id of the armed timer in timeoutRef; 0 = null or
                        \* the handle of a timer that has already run
    isMountedRef,
    isGeneratingRef,
    abortControllerRef, \* index in controllers, 0 = null
    pausedRef,
    controllers,        \* per AbortController: "live" or who aborted it
    calls,              \* per generateResponse invocation, in issue order
    timers,             \* armed setTimeout callbacks
    phase,              \* "constructed", "mounted", "unmounted"
    lastOp,             \* the step taken last: [op, info]
    \* --- the Controls component
    newPrompt,          \* useState('') of Controls: the text in the input
    promptError,        \* useState<string | null> of Controls
    \* --- the completion client (lib/api) on its own
    client,             \* which client: "axios" or "gemini"
    clock,              \* Date.now()
    requestTimes,       \* the rolling window of request timestamps
    requests,           \* per generateResponse invocation: where it stands
    completed           \* timestamps of the attempts that did not fail

vars == <<messages, isLoading, isPaused, error, currentTopic, selectedPersonas,
          timeoutRef, isMountedRef, isGeneratingRef, abortControllerRef,
          pausedRef, controllers, calls, timers, phase, lastOp,
          newPrompt, promptError>>

cvars == <<client, clock, requestTimes, requests, completed>>

\* the component's state as one record, so that handler bodies compose
Cur == [messages |-> messages, isLoading |-> isLoading, isPaused |-> isPaused,
        error |-> error, currentTopic |-> currentTopic,
        selectedPersonas |-> selectedPersonas, timeoutRef |-> timeoutRef,
        isMountedRef |-> isMountedRef, isGeneratingRef |-> isGeneratingRef,
        abortControllerRef |-> abortControllerRef, pausedRef |-> pausedRef,
        controllers |-> controllers, calls |-> calls, timers |-> timers]

DoneCall == [kind |-> "done", agent |-> "none", prompt |-> "", persona |-> "",
             sp |-> InitialPersonas, ctl |-> 0, status |-> "done"]

Pending(s) == {i \in 1..Len(s.calls) : s.calls[i].status = "pending"}
Aborted(s, i) == s.controllers[s.calls[i].ctl] # "live"
\* pending calls whose token is not cancelled
Live(s) == {i \in Pending(s) : ~Aborted(s, i)}

\* ------------------------------------------------------ completion client
\* variant without the "aborted after response" check: a late answer is
\* returned as a success
GenerateResponse_NoAbortCheck(aborted, outcome) ==
    CASE outcome.kind = "ok" -> [text |-> outcome.text, error |-> NoError]
      [] outcome.kind = "empty" -> [text |-> "", error |-> NoError]
      [] OTHER -> [text |-> "", error |-> ErrFailed]

\* The result generateResponse hands to its caller: every path taken with
\* an aborted signal returns 'Generation cancelled'.
GenerateResponse(aborted, outcome) ==
    IF aborted THEN [text |-> "", error |-> Cancelled]
    ELSE CASE outcome.kind = "ok" -> [text |-> outcome.text, error |-> NoError]
           [] outcome.kind = "empty" -> [text |-> "", error |-> NoError]
           [] OTHER -> [text |-> "", error |-> ErrFailed]

\* ------------------------------------------------- rate window and retries
RATE_LIMIT == 60
WINDOW_MS == 60 * 1000
\* Math.floor(RATE_LIMIT * BUFFER_FACTOR), BUFFER_FACTOR = 0.8
EFFECTIVE_RATE_LIMIT == (RATE_LIMIT * 8) \div 10
\* Math.ceil(WINDOW_MS / EFFECTIVE_RATE_LIMIT)
MIN_REQUEST_INTERVAL == (WINDOW_MS + EFFECTIVE_RATE_LIMIT - 1) \div EFFECTIVE_RATE_LIMIT

ErrTooMany == "Too many requests. Please wait a moment before trying again."
ErrTimedOut == "Request timed out. Retrying..."

Clients == {"axios", "gemini"}
\* how a network attempt can fail: a rate-limit rejection, a timeout, or
\* anything else
FailKinds == {"rate", "timeout", "other"}
\* the retry-after header of a 429 answer, in seconds (0: no header)
RetryAfterSecs == {0, 2}

Max(a, b) == IF a >= b THEN a ELSE b
Min(a, b) == IF a <= b THEN a ELSE b

\* while (requestTimes.length > 0 && requestTimes[0] < now - WINDOW_MS) shift
RECURSIVE cleanRequestWindow(_, _)
cleanRequestWindow(rt, now) ==
    IF Len(rt) > 0 /\ rt[1] < now - WINDOW_MS
    THEN cleanRequestWindow(Tail(rt), now)
    ELSE rt

\* canMakeRequest on the cleaned window
canMakeRequest(rt) == Len(rt) < EFFECTIVE_RATE_LIMIT

\* variant that only keeps the minimum spacing between two requests
getWaitTime_SpacingOnly(rt, now) ==
    IF Len(rt) = 0 THEN 0
    ELSE Max(0, MIN_REQUEST_INTERVAL - (now - rt[Len(rt)]) + 100)

\* getWaitTime on the cleaned window
getWaitTime(rt, now) ==
    IF Len(rt) = 0 THEN 0
    ELSE IF Len(rt) >= EFFECTIVE_RATE_LIMIT
    THEN rt[1] + WINDOW_MS - now + 1000
    ELSE Max(0, MIN_REQUEST_INTERVAL - (now - rt[Len(rt)]) + 100)

\* variant without the cap of ten seconds
getRetryDelay_NoCap(retryCount) == 1000 * 2^retryCount

\* Math.min(1000 * Math.pow(2, retryCount), 10000)
getRetryDelay(retryCount) == Min(1000 * 2^retryCount, 10000)

\* variant that retries whatever the count
MayRetry_NoCap(cl, kind, retryCount) ==
    IF cl = "axios" THEN kind = "rate" ELSE kind \in {"rate", "timeout"}

\* the retry decision: axios retries a 429 while retryCount < 3, the Gemini
\* client a retryable error while retryCount < 5
MayRetry(cl, kind, retryCount) ==
    IF cl = "axios" THEN kind = "rate" /\ retryCount < 3
    ELSE kind \in {"rate", "timeout"} /\ retryCount < 5

\* the error message of a failure that is not retried
ErrorMessage(cl, kind) ==
    IF kind = "rate" THEN ErrTooMany
    ELSE IF cl = "gemini" /\ kind = "timeout" THEN ErrTimedOut
    ELSE ErrFailed

NoRequest == [pc |-> "idle", retryCount |-> 0, wake |-> 0, stamp |-> 0,
              attempts |-> 0, fullAt |-> -1, aborted |-> FALSE,
              last |-> "none", error |-> NoError, text |-> ""]

\* the call returns; what its frame held is forgotten
Settle(r, text, err) ==
    [r EXCEPT !.pc = "done", !.text = text, !.error = err, !.wake = 0,
              !.stamp = 0, !.aborted = FALSE]

\* "Record this request" and send it
Post(rt, r, now) ==
    [rt |-> Append(rt, now),
     r |-> [r EXCEPT !.pc = "net", !.stamp = now, !.attempts = @ + 1,
                     !.last = "none"]]

\* variant without the "already aborted" check at the entry
Begin_NoEntryCheck(rt, r, now1, now2) ==
    LET w1 == cleanRequestWindow(rt, now1)
    IN IF canMakeRequest(w1) THEN Post(w1, [r EXCEPT !.fullAt = -1], now1)
       ELSE LET w2 == cleanRequestWindow(w1, now2)
            IN [rt |-> w2,
                r |-> [r EXCEPT !.pc = "wait",
                                !.wake = now2 + getWaitTime(w2, now2),
                                !.fullAt = w1[1]]]

\* generateResponse from its entry to its first await. now1 is Date.now() in
\* canMakeRequest, now2 in getWaitTime. fullAt remembers the oldest entry of
\* a window found full.
Begin(rt, r, now1, now2) ==
    IF r.aborted THEN [rt |-> rt, r |-> Settle(r, "", Cancelled)]
    ELSE LET w1 == cleanRequestWindow(rt, now1)
         IN IF canMakeRequest(w1) THEN Post(w1, [r EXCEPT !.fullAt = -1], now1)
            ELSE LET w2 == cleanRequestWindow(w1, now2)
                 IN [rt |-> w2,
                     r |-> [r EXCEPT !.pc = "wait",
                                     !.wake = now2 + getWaitTime(w2, now2),
                                     !.fullAt = w1[1]]]

\* variant without the "aborted during wait" check
Admit_NoAbortCheck(rt, r, now) == Post(rt, r, now)

\* after `await delay(waitTime)`
Admit(rt, r, now) ==
    IF r.aborted THEN [rt |-> rt, r |-> Settle(r, "", Cancelled)]
    ELSE Post(rt, r, now)

\* variant that leaves the failed request in the window
Release_Keep(rt, stamp) == rt

\* requestTimes.indexOf(now), splice(index, 1)
Release(rt, stamp) ==
    IF \E k \in 1..Len(rt) : rt[k] = stamp
    THEN LET k == CHOOSE k \in 1..Len(rt) :
                     rt[k] = stamp /\ \A j \in 1..(k - 1) : rt[j] # stamp
         IN SubSeq(rt, 1, k - 1) \o SubSeq(rt, k + 1, Len(rt))
    ELSE rt

\* the attempt threw: the inner catch releases the window entry, the outer
\* catch decides. cancel: the request was aborted through its signal.
Failed(cl, rt, r, kind, retryAfter, now) ==
    LET w == Release(rt, r.stamp)
        gone == IF cl = "axios" THEN kind = "cancel" ELSE r.aborted
        r0 == [r EXCEPT !.last = kind]
    IN IF gone THEN [rt |-> w, r |-> Settle(r0, "", Cancelled)]
       ELSE IF MayRetry(cl, kind, r.retryCount)
       THEN [rt |-> w,
             r |-> [r0 EXCEPT !.pc = "backoff",
                             !.wake = now + (IF cl = "axios"
                                             THEN Max(retryAfter * 1000,
                                                      getRetryDelay(r.retryCount))
                                             ELSE getRetryDelay(r.retryCount))]]
       ELSE [rt |-> w, r |-> Settle(r0, "", ErrorMessage(cl, kind))]

\* the provider answered with a text
Answered(cl, rt, r, text, now) ==
    IF r.aborted THEN [rt |-> rt, r |-> Settle([r EXCEPT !.last = "ok"], "", Cancelled)]
    ELSE IF cl = "gemini" /\ text = ""
    THEN Failed(cl, rt, r, "other", 0, now)    \* Empty response from Gemini
    ELSE [rt |-> rt, r |-> Settle([r EXCEPT !.last = "ok"], text, NoError)]

\* ---------------------------------------------------------------- Controls
ErrEnterPrompt == "Please enter a prompt"
ErrTooLong == "Prompt is too long (maximum 500 characters)"

X10 == "xxxxxxxxxx"
X50 == X10 \o X10 \o X10 \o X10 \o X10
\* a text of 500 characters
Full == X50 \o X50 \o X50 \o X50 \o X50 \o X50 \o X50 \o X50 \o X50 \o X50

\* texts the input may hold (maxLength = 500)
Blank == "  "
Padded == " Why? "
TypedTexts == {"", Blank, Padded, Full}

\* String.prototype.trim on the texts above
trim(t) ==
    CASE t = Blank -> ""
      [] t = Padded -> "Why?"
      [] OTHER -> t

\* variant that accepts every prompt
validatePrompt_AcceptsAll(prompt) == NoError

\* validatePrompt: the error it sets; it returns true when that is null
validatePrompt(prompt) ==
    IF trim(prompt) = "" THEN ErrEnterPrompt
    ELSE IF Len(prompt) > 500 THEN ErrTooLong
    ELSE NoError

\* -------------------------------------------------------------- scheduler
\* variant that leaves isGeneratingRef as it is
cleanup_KeepsGenerating(s, by) ==
    LET s1 == IF s.timeoutRef # 0
              THEN [s EXCEPT !.timers = {t \in @ : t.id # s.timeoutRef},
                             !.timeoutRef = 0]
              ELSE s
    IN IF s1.abortControllerRef # 0
       THEN [s1 EXCEPT
               !.controllers[s1.abortControllerRef] =
                   IF @ = "live" THEN by ELSE @,
               !.abortControllerRef = 0]
       ELSE s1

\* variant that clears the timer and the flag but aborts nothing
cleanup_NoAbort(s, by) ==
    LET s1 == IF s.timeoutRef # 0
              THEN [s EXCEPT !.timers = {t \in @ : t.id # s.timeoutRef},
                             !.timeoutRef = 0]
              ELSE s
    IN [s1 EXCEPT !.abortControllerRef = 0, !.isGeneratingRef = FALSE]

\* variant that aborts the call but leaves the armed timer alone
cleanup_KeepsTimer(s, by) ==
    LET s2 == IF s.abortControllerRef # 0
              THEN [s EXCEPT
                      !.controllers[s.abortControllerRef] =
                          IF @ = "live" THEN by ELSE @,
                      !.abortControllerRef = 0]
              ELSE s
    IN [s2 EXCEPT !.isGeneratingRef = FALSE]

\* cleanup(): clear the timer in timeoutRef, abort the controller in
\* abortControllerRef, clear the generating flag
cleanup(s, by) ==
    LET s1 == IF s.timeoutRef # 0
              THEN [s EXCEPT !.timers = {t \in @ : t.id # s.timeoutRef},
                             !.timeoutRef = 0]
              ELSE s
        s2 == IF s1.abortControllerRef # 0
              THEN [s1 EXCEPT
                      !.controllers[s1.abortControllerRef] =
                          IF @ = "live" THEN by ELSE @,
                      !.abortControllerRef = 0]
              ELSE s1
    IN [s2 EXCEPT !.isGeneratingRef = FALSE]

\* variant with the comparison turned round: the author speaks again
CurrentAgent_SameSpeaker(prev) ==
    IF prev = NoMsg \/ prev.agent = "agent1" THEN "agent1" ELSE "agent2"

\* isAgent1 / currentAgent of generateNextMessage
CurrentAgent(prev) ==
    IF prev = NoMsg \/ prev.agent = "agent2" THEN "agent1" ELSE "agent2"

\* variant that replaces the controller without aborting the one in place
generateNextMessage_NoAbort(s, prev, sp) ==
    IF ~s.isMountedRef \/ s.isGeneratingRef \/ s.pausedRef THEN s
    ELSE
      LET id == Len(s.controllers) + 1
          agent == CurrentAgent(prev)
          call == IF prev = NoMsg
                  THEN [kind |-> "topic", agent |-> agent,
                        prompt |-> TopicRequest, persona |-> TopicPersona,
                        sp |-> sp, ctl |-> id, status |-> "pending"]
                  ELSE [kind |-> "turn", agent |-> agent,
                        prompt |-> prev.text,
                        persona |-> PersonaName(sp[agent]),
                        sp |-> sp, ctl |-> id, status |-> "pending"]
      IN [s EXCEPT !.isGeneratingRef = TRUE, !.isLoading = TRUE,
                   !.error = NoError,
                   !.controllers = Append(s.controllers, "live"),
                   !.abortControllerRef = id,
                   !.calls = Append(@, call)]

\* The synchronous part of generateNextMessage, up to its first await.
\* sp is the selectedPersonas of the closure the function was created in.
generateNextMessage(s, prev, sp) ==
    IF ~s.isMountedRef \/ s.isGeneratingRef \/ s.pausedRef THEN s
    ELSE
      LET ctls == IF s.abortControllerRef # 0
                  THEN [s.controllers EXCEPT ![s.abortControllerRef] =
                           IF @ = "live" THEN "turn" ELSE @]
                  ELSE s.controllers
          id == Len(ctls) + 1
          agent == CurrentAgent(prev)
          call == IF prev = NoMsg
                  THEN [kind |-> "topic", agent |-> agent,
                        prompt |-> TopicRequest, persona |-> TopicPersona,
                        sp |-> sp, ctl |-> id, status |-> "pending"]
                  ELSE [kind |-> "turn", agent |-> agent,
                        prompt |-> prev.text,
                        persona |-> PersonaName(sp[agent]),
                        sp |-> sp, ctl |-> id, status |-> "pending"]
      IN [s EXCEPT !.isGeneratingRef = TRUE, !.isLoading = TRUE,
                   !.error = NoError,
                   !.controllers = Append(ctls, "live"),
                   !.abortControllerRef = id,
                   !.calls = Append(@, call)]

\* "Start conversation when mounted" effect body
StartEffect(s) ==
    IF Len(s.messages) = 0 /\ ~s.isPaused /\ s.isMountedRef
    THEN generateNextMessage(s, NoMsg, s.selectedPersonas)
    ELSE s

\* re-render after a step: the start effect runs again when one of its
\* dependencies [messages.length, isPaused, generateNextMessage] changed;
\* generateNextMessage changes identity with selectedPersonas
Render(old, new) ==
    IF Len(old.messages) # Len(new.messages)
       \/ old.isPaused # new.isPaused
       \/ old.selectedPersonas # new.selectedPersonas
    THEN StartEffect(new)
    ELSE new

LastMsg(s) == IF Len(s.messages) > 0 THEN s.messages[Len(s.messages)] ELSE NoMsg

\* variant that resumes with a fresh start whatever the transcript holds
handlePauseToggle_FreshStart(s) ==
    LET newPausedState == ~s.isPaused
        s1 == [s EXCEPT !.pausedRef = newPausedState]
        s2 == IF newPausedState THEN cleanup(s1, "pause")
              ELSE generateNextMessage(s1, NoMsg, s1.selectedPersonas)
    IN [s2 EXCEPT !.isPaused = newPausedState]

handlePauseToggle(s) ==
    LET newPausedState == ~s.isPaused
        s1 == [s EXCEPT !.pausedRef = newPausedState]
        s2 == IF newPausedState THEN cleanup(s1, "pause")
              ELSE generateNextMessage(s1, LastMsg(s1), s1.selectedPersonas)
    IN [s2 EXCEPT !.isPaused = newPausedState]

\* variant that keeps the first message of the transcript
handleReset_KeepsFirst(s) ==
    [cleanup(s, "reset") EXCEPT !.messages = IF @ = <<>> THEN @ ELSE <<@[1]>>,
                                !.currentTopic = NoTopic,
                                !.isPaused = FALSE, !.error = NoError,
                                !.isLoading = FALSE]

handleReset(s) ==
    [cleanup(s, "reset") EXCEPT !.messages = <<>>, !.currentTopic = NoTopic,
                                !.isPaused = FALSE, !.error = NoError,
                                !.isLoading = FALSE]

\* variant that leaves the armed timer alone
handlePromptSubmit_KeepsTimer(s, prompt) ==
    IF s.isGeneratingRef \/ s.isLoading THEN s
    ELSE
      LET s1 == [s EXCEPT !.isGeneratingRef = FALSE]
          ctls == IF s1.abortControllerRef # 0
                  THEN [s1.controllers EXCEPT ![s1.abortControllerRef] =
                           IF @ = "live" THEN "submit" ELSE @]
                  ELSE s1.controllers
          id == Len(ctls) + 1
          call == [kind |-> "submit", agent |-> "agent2", prompt |-> prompt,
                   persona |-> PersonaName(s.selectedPersonas["agent2"]),
                   sp |-> s.selectedPersonas, ctl |-> id, status |-> "pending"]
      IN [s1 EXCEPT !.isLoading = TRUE, !.error = NoError,
                    !.messages = Append(@, Message(prompt, "agent1")),
                    !.controllers = Append(ctls, "live"),
                    !.abortControllerRef = id,
                    !.calls = Append(@, call)]

handlePromptSubmit(s, prompt) ==
    IF s.isGeneratingRef \/ s.isLoading THEN s
    ELSE
      LET s1 == cleanup(s, "submit")
          ctls == IF s1.abortControllerRef # 0
                  THEN [s1.controllers EXCEPT ![s1.abortControllerRef] =
                           IF @ = "live" THEN "submit" ELSE @]
                  ELSE s1.controllers
          id == Len(ctls) + 1
          call == [kind |-> "submit", agent |-> "agent2", prompt |-> prompt,
                   persona |-> PersonaName(s.selectedPersonas["agent2"]),
                   sp |-> s.selectedPersonas, ctl |-> id, status |-> "pending"]
      IN [s1 EXCEPT !.isLoading = TRUE, !.error = NoError,
                    !.messages = Append(@, Message(prompt, "agent1")),
                    !.controllers = Append(ctls, "live"),
                    !.abortControllerRef = id,
                    !.calls = Append(@, call)]

handlePersonaSelect(s, agent, persona) ==
    [s EXCEPT !.selectedPersonas[agent] = persona]

\* finally block of generateNextMessage and handlePromptSubmit
Finally(s) ==
    [(IF s.isMountedRef THEN [s EXCEPT !.isLoading = FALSE] ELSE s)
        EXCEPT !.isGeneratingRef = FALSE]

\* variant that reports the error whether or not the view is mounted
CatchGenerate_Unmounted(s) == [s EXCEPT !.error = ErrLater]

\* catch block of generateNextMessage
CatchGenerate(s) ==
    IF s.isMountedRef THEN [s EXCEPT !.error = ErrLater] ELSE s

Timer(i, prev, sp, src) == [id |-> i, prev |-> prev, sp |-> sp, src |-> src]

\* variant without the fallback topic: an empty answer becomes the prompt
AfterTopic_NoFallback(s, i, r) ==
    LET c == s.calls[i]
        s0 == [s EXCEPT !.calls[i] = DoneCall]
    IN IF r.error # NoError THEN Finally(CatchGenerate(s0))
       ELSE LET s1 == [s0 EXCEPT !.currentTopic = r.text]
            IN IF s1.abortControllerRef = 0
               THEN Finally(CatchGenerate(s1))
               ELSE [s1 EXCEPT !.calls = Append(@,
                        [kind |-> "turn", agent |-> c.agent, prompt |-> r.text,
                         persona |-> PersonaName(c.sp[c.agent]), sp |-> c.sp,
                         ctl |-> s1.abortControllerRef, status |-> "pending"])]

\* generatePhilosophicalPrompt resolved inside generateNextMessage (call i)
AfterTopic(s, i, r) ==
    LET c == s.calls[i]
        s0 == [s EXCEPT !.calls[i] = DoneCall]
    IN IF r.error # NoError THEN Finally(CatchGenerate(s0))
       ELSE LET prompt == IF r.text # "" THEN r.text ELSE FallbackTopic
                s1 == [s0 EXCEPT !.currentTopic = prompt]
            IN IF s1.abortControllerRef = 0
               THEN Finally(CatchGenerate(s1))   \* null.signal throws
               ELSE [s1 EXCEPT !.calls = Append(@,
                        [kind |-> "turn", agent |-> c.agent, prompt |-> prompt,
                         persona |-> PersonaName(c.sp[c.agent]), sp |-> c.sp,
                         ctl |-> s1.abortControllerRef, status |-> "pending"])]

\* variant that appends the message but arms no timer
AfterTurn_NoTimer(s, i, r) ==
    LET c == s.calls[i]
        s0 == [s EXCEPT !.calls[i] = DoneCall]
    IN IF ~s0.isMountedRef \/ s0.pausedRef THEN Finally(s0)
       ELSE IF r.error # NoError
       THEN IF r.error = Cancelled THEN Finally(s0)
            ELSE Finally([s0 EXCEPT !.error = r.error])
       ELSE IF r.text # ""
       THEN Finally([s0 EXCEPT !.messages = Append(@, Message(r.text, c.agent))])
       ELSE Finally(s0)

\* the agent's generateResponse resolved inside generateNextMessage (call i)
AfterTurn(s, i, r) ==
    LET c == s.calls[i]
        s0 == [s EXCEPT !.calls[i] = DoneCall]
    IN IF ~s0.isMountedRef \/ s0.pausedRef THEN Finally(s0)
       ELSE IF r.error # NoError
       THEN IF r.error = Cancelled THEN Finally(s0)
            ELSE Finally([s0 EXCEPT !.error = r.error])
       ELSE IF r.text # ""
       THEN LET newMessage == Message(r.text, c.agent)
                s1 == [s0 EXCEPT !.messages = Append(@, newMessage)]
                s2 == IF s1.isMountedRef /\ ~s1.pausedRef
                      THEN [s1 EXCEPT
                              !.timers = @ \cup {Timer(i, newMessage, c.sp, "turn")},
                              !.timeoutRef = i]
                      ELSE s1
            IN Finally(s2)
       ELSE Finally(s0)

\* variant that appends the answer to the operator's text but arms no timer
AfterSubmit_NoTimer(s, i, r) ==
    LET s0 == [s EXCEPT !.calls[i] = DoneCall]
    IN IF ~s0.isMountedRef THEN Finally(s0)
       ELSE IF r.error # NoError
       THEN IF r.error = Cancelled THEN Finally(s0)
            ELSE Finally([s0 EXCEPT !.error = r.error])
       ELSE IF r.text # ""
       THEN Finally([s0 EXCEPT
                       !.messages = Append(@, Message(r.text, "agent2")),
                       !.pausedRef = FALSE, !.isPaused = FALSE])
       ELSE Finally(s0)

\* generateResponse resolved inside handlePromptSubmit (call i)
AfterSubmit(s, i, r) ==
    LET c == s.calls[i]
        s0 == [s EXCEPT !.calls[i] = DoneCall]
    IN IF ~s0.isMountedRef THEN Finally(s0)
       ELSE IF r.error # NoError
       THEN IF r.error = Cancelled THEN Finally(s0)
            ELSE Finally([s0 EXCEPT !.error = r.error])
       ELSE IF r.text # ""
       THEN LET aiMessage == Message(r.text, "agent2")
            IN Finally([s0 EXCEPT
                          !.messages = Append(@, aiMessage),
                          !.pausedRef = FALSE, !.isPaused = FALSE,
                          !.timers = @ \cup {Timer(i, aiMessage, c.sp, "submit")},
                          !.timeoutRef = i])
       ELSE Finally(s0)

\* a timer callback runs
AfterTimer(s, t) ==
    LET s0 == [s EXCEPT !.timers = @ \ {t},
                        !.timeoutRef = IF @ = t.id THEN 0 ELSE @]
    IN IF t.src = "submit" /\ ~(s0.isMountedRef /\ ~s0.pausedRef) THEN s0
       ELSE generateNextMessage(s0, t.prev, t.sp)

\* ---------------------------------------------------------------- actions
\* Objects nothing refers to any more are forgotten: an AbortController that
\* is neither in abortControllerRef nor observed by a pending call.
Collect(s) ==
    [s EXCEPT !.controllers =
        [j \in 1..Len(s.controllers) |->
            IF j = s.abortControllerRef
               \/ \E i \in 1..Len(s.calls) :
                     s.calls[i].status = "pending" /\ s.calls[i].ctl = j
            THEN s.controllers[j] ELSE "gone"]]

CommitHome(new0, op, info, ph) ==
    \E new \in {Collect(new0)} :
    /\ Len(new.calls) <= MaxCalls
    /\ Len(new.messages) <= MaxMsgs
    /\ Cardinality(Pending(new) \ Live(new)) <= MaxStale
    /\ messages' = new.messages
    /\ isLoading' = new.isLoading
    /\ isPaused' = new.isPaused
    /\ error' = new.error
    /\ currentTopic' = new.currentTopic
    /\ selectedPersonas' = new.selectedPersonas
    /\ timeoutRef' = new.timeoutRef
    /\ isMountedRef' = new.isMountedRef
    /\ isGeneratingRef' = new.isGeneratingRef
    /\ abortControllerRef' = new.abortControllerRef
    /\ pausedRef' = new.pausedRef
    /\ controllers' = new.controllers
    /\ calls' = new.calls
    /\ timers' = new.timers
    /\ phase' = ph
    /\ lastOp' = [op |-> op, info |-> info]
    /\ UNCHANGED cvars

\* a step of Home that does not pass through Controls
Commit(new0, op, info, ph) ==
    /\ CommitHome(new0, op, info, ph)
    /\ UNCHANGED <<newPrompt, promptError>>

\* what an operator intent hits: a call in flight that is not cancelled, an
\* armed inter-turn timer, or neither
Hit(s) == IF Live(s) # {} THEN "call"
          ELSE IF s.timers # {} THEN "timer" ELSE "idle"

HomeInit ==
    /\ messages = <<>>
    /\ isLoading = FALSE
    /\ isPaused = FALSE
    /\ error = NoError
    /\ currentTopic = NoTopic
    /\ selectedPersonas = InitialPersonas
    /\ timeoutRef = 0
    /\ isMountedRef = TRUE
    /\ isGeneratingRef = FALSE
    /\ abortControllerRef = 0
    /\ pausedRef = FALSE
    /\ controllers = <<>>
    /\ calls = <<>>
    /\ timers = {}
    /\ phase = "constructed"
    /\ lastOp = [op |-> "init", info |-> "-"]
    /\ newPrompt = ""
    /\ promptError = NoError

\* the client of the scheduler model is the result contract GenerateResponse;
\* the state of the stand-alone client model stays as constructed
Init ==
    /\ HomeInit
    /\ client = "axios"
    /\ clock = 0
    /\ requestTimes = <<>>
    /\ completed = <<>>
    /\ requests = <<>>

\* first render committed: the mount effects run (start())
Mount ==
    /\ phase = "constructed"
    /\ \E s \in {Cur} :
         Commit(StartEffect([s EXCEPT !.isMountedRef = TRUE]), "mount", "-", "mounted")

Unmount ==
    /\ phase = "mounted"
    /\ \E s \in {Cur} :
         Commit(cleanup([s EXCEPT !.isMountedRef = FALSE], "unmount"),
                "unmount", "-", "unmounted")

PauseToggle ==
    /\ phase = "mounted"
    /\ \E s \in {Cur} :
         Commit(Render(s, handlePauseToggle(s)),
                IF isPaused THEN "resume" ELSE "pause",
                IF isPaused
                THEN (IF lastOp.op = "pause" THEN lastOp.info ELSE "later")
                ELSE Hit(s),
                "mounted")

Reset ==
    /\ phase = "mounted"
    /\ \E s \in {Cur} :
         Commit(Render(s, handleReset(s)), "reset", "-", "mounted")

PromptSubmit ==
    /\ phase = "mounted"
    /\ \E s \in {Cur}, p \in OpTexts :
         Commit(Render(s, handlePromptSubmit(s, p)), "submit",
                IF isGeneratingRef \/ isLoading THEN "ignored" ELSE "accepted",
                "mounted")

\* the persona <select> reports a change of its value
PersonaSelect ==
    /\ phase = "mounted"
    /\ \E s \in {Cur}, a \in Agents, k \in PersonaKeys :
         /\ k # selectedPersonas[a]
         /\ Cardinality({b \in Agents : selectedPersonas[b] # InitialPersonas[b]})
               < MaxPersonaChanges
         /\ Commit(Render(s, handlePersonaSelect(s, a, k)), "persona",
                   "-", "mounted")

TimerFire ==
    \E s \in {Cur} :
      \E t \in timers :
        Commit(Render(s, AfterTimer(s, t)), "timer", "-", phase)

\* pending call i resolves after the provider did o with it; its caller
\* continues
ResolveAs(i, o) ==
    \E s \in {Cur} :
        /\ i \in Pending(s)
        \* the answer to a cancelled call is not looked at: the model lets
        \* the provider answer it successfully, the case where a result
        \* has to be discarded
        /\ Aborted(s, i) => o.kind = "ok"
        /\ \E r \in {GenerateResponse(Aborted(s, i), o)} :
             Commit(Render(s, CASE s.calls[i].kind = "topic" -> AfterTopic(s, i, r)
                                [] s.calls[i].kind = "turn" -> AfterTurn(s, i, r)
                                [] OTHER -> AfterSubmit(s, i, r)),
                    "resolve", s.controllers[s.calls[i].ctl], phase)

\* a pending generateResponse call resolves
Resolve ==
    \E i \in 1..Len(calls), o \in Outcomes : ResolveAs(i, o)

Next ==
    \/ Mount
    \/ Unmount
    \/ PauseToggle
    \/ Reset
    \/ PromptSubmit
    \/ PersonaSelect
    \/ TimerFire
    \/ Resolve

Spec == Init /\ [][Next]_vars

\* ------------------------------------------ the dialogue left to itself
\* answers of a provider that always succeeds with a non-empty text
Replies == {"a", "b", "c", "d", "e"}

\* a pending call resolves with a reply
ResolveOk ==
    \E s \in {Cur} :
      \E i \in Pending(s), text \in Replies :
        \E r \in {GenerateResponse(Aborted(s, i), [kind |-> "ok", text |-> text])} :
          Commit(Render(s, CASE s.calls[i].kind = "topic" -> AfterTopic(s, i, r)
                             [] s.calls[i].kind = "turn" -> AfterTurn(s, i, r)
                             [] OTHER -> AfterSubmit(s, i, r)),
                 "resolve", s.controllers[s.calls[i].ctl], phase)

\* no operator intent after start
NextPerpetual ==
    \/ Mount
    \/ TimerFire
    \/ ResolveOk

\* the browser runs the mount effects, every armed timer fires and every
\* request is answered
SpecPerpetual ==
    /\ Init
    /\ [][NextPerpetual]_vars
    /\ WF_vars(Mount)
    /\ WF_vars(TimerFire)
    /\ WF_vars(ResolveOk)

\* ------------------------------------------------ the operator resets
\* the operator pauses, resumes and resets; the provider always answers
NextReset ==
    \/ Mount
    \/ PauseToggle
    \/ Reset
    \/ TimerFire
    \/ ResolveOk

SpecReset ==
    /\ Init
    /\ [][NextReset]_vars
    /\ WF_vars(Mount)
    /\ WF_vars(TimerFire)
    /\ WF_vars(ResolveOk)

\* ------------------------------------------------- Home with its Controls
\* handlePromptChange: the input is disabled while isLoading
ControlsChange ==
    /\ phase = "mounted"
    /\ ~isLoading
    /\ \E v \in TypedTexts :
         /\ v # newPrompt
         /\ newPrompt' = v
         /\ promptError' = IF promptError # NoError THEN validatePrompt(v)
                           ELSE promptError
    /\ lastOp' = [op |-> "change", info |-> "-"]
    /\ UNCHANGED <<messages, isLoading, isPaused, error, currentTopic,
                   selectedPersonas, timeoutRef, isMountedRef, isGeneratingRef,
                   abortControllerRef, pausedRef, controllers, calls, timers,
                   phase>>
    /\ UNCHANGED cvars

\* handleSubmit: the form is submitted, or Ctrl/Cmd+Enter is pressed
ControlsSubmit ==
    /\ phase = "mounted"
    /\ \E s \in {Cur}, prompt \in {trim(newPrompt)} :
         IF isLoading
         THEN /\ CommitHome(s, "submit", "loading", "mounted")
              /\ UNCHANGED <<newPrompt, promptError>>
         ELSE /\ promptError' = validatePrompt(prompt)
              /\ IF validatePrompt(prompt) = NoError
                 THEN /\ CommitHome(Render(s, handlePromptSubmit(s, prompt)),
                                    "submit", "forwarded", "mounted")
                      /\ newPrompt' = ""
                 ELSE /\ CommitHome(s, "submit", "rejected", "mounted")
                      /\ UNCHANGED newPrompt

\* the pause and reset buttons are disabled while isLoading
ControlsPause == ~isLoading /\ PauseToggle
ControlsReset == ~isLoading /\ Reset

ControlsNext ==
    \/ Mount
    \/ Unmount
    \/ ControlsPause
    \/ ControlsReset
    \/ ControlsChange
    \/ ControlsSubmit
    \/ PersonaSelect
    \/ TimerFire
    \/ Resolve

SpecControls == Init /\ [][ControlsNext]_vars

\* ------------------------------------------------------ client on its own
\* the window as the earlier requests of the process left it: empty, one
\* short of the effective limit, or full, all sent at instant 0
InitialWindows ==
    {[k \in 1..n |-> 0] : n \in {0, EFFECTIVE_RATE_LIMIT - 1, EFFECTIVE_RATE_LIMIT}}

ClientInit ==
    /\ HomeInit
    /\ client \in Clients
    /\ clock = 0
    /\ requestTimes \in InitialWindows
    /\ completed = requestTimes
    /\ requests = <<NoRequest>>     \* one call, on top of the earlier ones

\* stamp added to the sorted list of the attempts that did not fail
Record(done, stamp) ==
    LET k == Cardinality({j \in 1..Len(done) : done[j] <= stamp})
    IN SubSeq(done, 1, k) \o <<stamp>> \o SubSeq(done, k + 1, Len(done))

\* request i runs generateResponse from its entry; Date.now() may move on
\* between canMakeRequest and getWaitTime
Enter(i, r) ==
    \E dt \in {0, 1} :
      /\ dt = 1 => ~r.aborted /\ ~canMakeRequest(cleanRequestWindow(requestTimes, clock))
      /\ \E n \in {Begin(requestTimes, r, clock, clock + dt)} :
           /\ requestTimes' = n.rt
           /\ requests' = [requests EXCEPT ![i] = n.r]
           /\ clock' = clock + dt
           /\ UNCHANGED <<client, completed>>

\* generateResponse(prompt, persona, signal) is called
ClientCall ==
    /\ \E i \in DOMAIN requests, ab \in BOOLEAN :
         /\ requests[i].pc = "idle"
         /\ Enter(i, [requests[i] EXCEPT !.aborted = ab])
    /\ UNCHANGED vars

\* the caller aborts the signal of a call that has not settled
ClientAbort ==
    /\ \E i \in DOMAIN requests :
         /\ requests[i].pc \in {"wait", "net", "backoff"}
         /\ ~requests[i].aborted
         /\ requests' = [requests EXCEPT ![i].aborted = TRUE]
    /\ UNCHANGED <<client, clock, requestTimes, completed>>
    /\ UNCHANGED vars

\* the rate-limit wait is over
ClientAdmit ==
    /\ \E i \in DOMAIN requests :
         /\ requests[i].pc = "wait"
         /\ clock >= requests[i].wake
         /\ \E n \in {Admit(requestTimes, requests[i], clock)} :
              /\ requestTimes' = n.rt
              /\ requests' = [requests EXCEPT ![i] = n.r]
    /\ UNCHANGED <<client, clock, completed>>
    /\ UNCHANGED vars

\* the provider answers the attempt in flight (axios rejects instead when
\* the signal is aborted)
ClientAnswer ==
    /\ \E i \in DOMAIN requests, text \in RespTexts \cup {""} :
         /\ requests[i].pc = "net"
         /\ client = "axios" => ~requests[i].aborted
         /\ \E n \in {Answered(client, requestTimes, requests[i], text, clock)} :
              /\ requestTimes' = n.rt
              /\ requests' = [requests EXCEPT ![i] = n.r]
              /\ completed' = IF n.r.last = "ok"
                              THEN Record(completed, requests[i].stamp)
                              ELSE completed
    /\ UNCHANGED <<client, clock>>
    /\ UNCHANGED vars

\* the attempt in flight of request i throws an error of the given kind; a
\* 429 of the axios client may carry a retry-after header
FailAs(i, kind, retryAfter) ==
    /\ requests[i].pc = "net"
    /\ kind = "cancel" <=> (client = "axios" /\ requests[i].aborted)
    /\ retryAfter # 0 => (client = "axios" /\ kind = "rate")
    /\ \E n \in {Failed(client, requestTimes, requests[i], kind, retryAfter, clock)} :
         /\ requestTimes' = n.rt
         /\ requests' = [requests EXCEPT ![i] = n.r]
    /\ UNCHANGED <<client, clock, completed>>
    /\ UNCHANGED vars

\* the attempt in flight throws
ClientFail ==
    \E i \in DOMAIN requests, kind \in FailKinds \cup {"cancel"},
       retryAfter \in RetryAfterSecs : FailAs(i, kind, retryAfter)

\* the backoff delay is over: generateResponse(..., retryCount + 1)
ClientRetry ==
    /\ \E i \in DOMAIN requests :
         /\ requests[i].pc = "backoff"
         /\ clock >= requests[i].wake
         /\ Enter(i, [requests[i] EXCEPT !.retryCount = @ + 1])
    /\ UNCHANGED vars

\* the instants at which something can happen next: the end of a delay, or
\* the oldest entry of the window is about to leave it or has left it
Instants ==
    {requests[i].wake : i \in {j \in DOMAIN requests :
                                  requests[j].pc \in {"wait", "backoff"}}}
    \cup (IF Len(requestTimes) > 0
          THEN {requestTimes[1] + WINDOW_MS, requestTimes[1] + WINDOW_MS + 1}
          ELSE {})

\* time passes, up to the next such instant
ClientAdvance ==
    /\ \E i \in DOMAIN requests : requests[i].pc # "done"
    /\ \E t \in Instants :
         /\ t > clock
         /\ t <= MaxSeconds * 1000
         /\ \A u \in Instants : u > clock => t <= u
         /\ clock' = t
    /\ UNCHANGED <<client, requestTimes, requests, completed>>
    /\ UNCHANGED vars

ClientNext ==
    \/ ClientCall
    \/ ClientAbort
    \/ ClientAdmit
    \/ ClientAnswer
    \/ ClientFail
    \/ ClientRetry
    \/ ClientAdvance

SpecClient == ClientInit /\ [][ClientNext]_cvars


\* ------------------------------------------- two callers share the window
\* the window as earlier requests left it: full, the oldest entry recorded
\* two seconds before the others
SharedWindow == <<0>> \o [k \in 1..(EFFECTIVE_RATE_LIMIT - 1) |-> 2000]

SharedInit ==
    /\ HomeInit
    /\ client \in Clients
    /\ clock = 2000
    /\ requestTimes = SharedWindow
    /\ completed = requestTimes
    /\ requests = <<NoRequest, NoRequest>>   \* two calls to come

\* the two calls are made, wait, are admitted and answered
SharedNext ==
    \/ ClientCall
    \/ ClientAbort
    \/ ClientAdmit
    \/ ClientAnswer
    \/ ClientAdvance

SpecShared == SharedInit /\ [][SharedNext]_cvars

\* ------------------------------------------------------------------ claims

\* C1: turn alternation - no two consecutive messages of the transcript
\* have the same agent, whatever appended them.
C1_TurnAlternation ==
    \A i \in 1..(Len(messages) - 1) : messages[i].agent # messages[i + 1].agent

\* helpers for statements about one step
PendingNow == Pending(Cur)
LiveNow == Live(Cur)
AbortedNow(i) == Aborted(Cur, i)
CancelledBy(i) == controllers[calls[i].ctl]
\* call i resolves in this step
Resolves(i) == i \in PendingNow /\ calls'[i].status = "done"
\* the calls issued in this step
IssuedNow == (Len(calls) + 1)..Len(calls')
OtherAgent(a) == IF a = "agent1" THEN "agent2" ELSE "agent1"

\* C2: at most one call is in flight with a token that is not cancelled, and
\* a start/turn request (start effect, timer callback, resume) made while
\* such a call is pending changes nothing: no attempt is issued and the
\* controller is not replaced.
C2_AtMostOneInFlight ==
    [][/\ Cardinality(LiveNow) <= 1
       /\ (LiveNow # {} /\ lastOp'.op \in {"mount", "timer", "resume", "persona"})
            => /\ calls' = calls
               /\ abortControllerRef' = abortControllerRef]_vars

\* C3: a call cancelled by pause or reset whose provider answer arrives
\* afterwards appends no message and arms no timer, whether or not the
\* session has been resumed in the meantime.
C3_StaleResultDiscarded ==
    [][\A i \in PendingNow :
          (Resolves(i) /\ CancelledBy(i) \in {"pause", "reset"})
            => /\ messages' = messages
               /\ timers' = timers
               /\ timeoutRef' = timeoutRef]_vars

\* C3 witness: the answer to a call cancelled by pause has been discarded
\* while the resumed session already has its next call in flight
C3_Witness ==
    /\ lastOp = [op |-> "resolve", info |-> "pause"]
    /\ ~isPaused /\ ~pausedRef
    /\ LiveNow # {}
    /\ Len(messages) = 1

\* C4: reset leaves the transcript empty, the topic cleared, paused false
\* and lastError cleared, and the call that was in flight at the reset
\* neither appends a message nor sets lastError when it resolves.
C4_ResetClearsAndStaysClear ==
    [][/\ lastOp'.op = "reset"
            => /\ messages' = <<>>
               /\ currentTopic' = NoTopic
               /\ ~isPaused'
               /\ error' = NoError
       /\ \A i \in PendingNow :
            (Resolves(i) /\ CancelledBy(i) = "reset")
              => /\ messages' = messages
                 /\ error' = error]_vars

\* C5: submitPrompt issued while a scheduled turn of Agent1 is mid-generation
\* cancels that call, appends the text as an Agent1 message and starts one
\* attempt for Agent2 whose prompt is the text.
C5_SubmitPreempts ==
    [][\A i \in LiveNow :
          (lastOp'.op = "submit" /\ calls[i].kind # "submit"
           /\ calls[i].agent = "agent1")
            => /\ controllers'[calls[i].ctl] # "live"
               /\ Len(messages') = Len(messages) + 1
               /\ messages'[Len(messages')].agent = "agent1"
               /\ messages'[Len(messages')].text \in OpTexts
               /\ Len(calls') = Len(calls) + 1
               /\ calls'[Len(calls')].agent = "agent2"
               /\ calls'[Len(calls')].prompt = messages'[Len(messages')].text]_vars

\* C6: with transcript [{agent1, X}], the resume that follows a pause (of
\* an in-flight call or of an armed timer; the cancelled call may resolve in
\* between) issues exactly one attempt: for Agent2, with prompt X.
C6_PauseResumeOneAttempt ==
    [][(/\ lastOp'.op = "resume"
        /\ Len(messages) = 1 /\ messages[1].agent = "agent1")
         => /\ Len(calls') = Len(calls) + 1
            /\ calls'[Len(calls')].status = "pending"
            /\ calls'[Len(calls')].agent = "agent2"
            /\ calls'[Len(calls')].prompt = messages[1].text
            /\ controllers'[calls'[Len(calls')].ctl] = "live"
            /\ messages' = messages]_vars

\* C6 witness: pause hit an in-flight call, resume has issued the attempt
C6_Witness ==
    /\ lastOp = [op |-> "resume", info |-> "call"]
    /\ Len(messages) = 1 /\ messages[1].agent = "agent1"
    /\ \E i \in LiveNow : calls[i].agent = "agent2"
                          /\ calls[i].prompt = messages[1].text

\* C7 (as claimed): the one call start() issues on the empty transcript is
\* the turn of Agent1, with Agent1's persona and a seed topic as prompt.
C7_StartUsesSeedTopic ==
    lastOp.op = "mount"
      => /\ Len(calls) = 1
         /\ calls[1].agent = "agent1"
         /\ calls[1].persona = PersonaName(selectedPersonas["agent1"])
         /\ calls[1].prompt \in philosophicalPrompts

\* C7 (amended): start() issues exactly one call, the topic request with
\* the persona 'philosopher'; when that call succeeds un-cancelled, exactly
\* one attempt for Agent1 is issued, with the persona configured for Agent1
\* when start() ran and the generated topic (the fallback topic when the
\* answer is empty) as prompt, and no message is appended before it.
C7_StartTopicThenTurn ==
    [][/\ lastOp'.op = "mount"
            => /\ Len(calls') = 1
               /\ calls'[1].kind = "topic"
               /\ calls'[1].persona = TopicPersona
               /\ calls'[1].prompt = TopicRequest
               /\ messages' = <<>>
       /\ \A i \in LiveNow :
            (Resolves(i) /\ calls[i].kind = "topic" /\ error' = NoError)
              => /\ Len(calls') = Len(calls) + 1
                 /\ calls'[Len(calls')].status = "pending"
                 /\ calls'[Len(calls')].kind = "turn"
                 /\ calls'[Len(calls')].agent = "agent1"
                 /\ calls'[Len(calls')].persona
                      = PersonaName(calls[i].sp["agent1"])
                 /\ calls'[Len(calls')].prompt \in RespTexts \cup {FallbackTopic}
                 /\ currentTopic' = calls'[Len(calls')].prompt
                 /\ messages' = <<>>]_vars

\* C7 witness: the opening turn of Agent1 is in flight with the topic
C7_Witness ==
    /\ lastOp = [op |-> "resolve", info |-> "live"]
    /\ messages = <<>>
    /\ Len(calls) = 2
    /\ calls[2].status = "pending" /\ calls[2].kind = "turn"
    /\ calls[2].prompt = currentTopic

\* C8: turn ownership - every attempt is issued for the agent other than
\* the author of the last message at that moment (Agent1 on the empty
\* transcript), and the message appended on its success carries that agent.
C8_TurnOwnership ==
    [][/\ \A j \in IssuedNow :
            calls'[j].agent = IF messages' = <<>> THEN "agent1"
                              ELSE OtherAgent(messages'[Len(messages')].agent)
       /\ \A i \in PendingNow :
            (Resolves(i) /\ Len(messages') = Len(messages) + 1)
              => messages'[Len(messages')].agent = calls[i].agent]_vars

\* C8 witness: a timer has issued the turn of Agent2 after Agent1's message
C8_Witness ==
    /\ lastOp.op = "timer"
    /\ Len(messages) = 1 /\ messages[1].agent = "agent1"
    /\ \E i \in LiveNow : calls[i].agent = "agent2" /\ calls[i].kind = "turn"

\* the loop has stopped with an error: nothing in flight, nothing armed
Halted == error # NoError /\ LiveNow = {} /\ timers = {}

\* C9: a non-cancellation error returned to the scheduler sets lastError,
\* appends nothing, arms no timer and issues no attempt, and from then on no
\* attempt is issued until the operator issues resume, reset or submitPrompt.
C9_ErrorHaltsLoop ==
    [][/\ \A i \in LiveNow :
            (Resolves(i) /\ error' # NoError)
              => /\ messages' = messages
                 /\ timers' = {}
                 /\ Len(calls') = Len(calls)
       /\ (Halted /\ Len(calls') > Len(calls))
            => lastOp'.op \in {"resume", "reset", "submit"}]_vars

\* C10: the resolution of a call that ended because it was cancelled never
\* sets lastError.
C10_CancelledNeverShown ==
    [][\A i \in PendingNow :
          (Resolves(i) /\ AbortedNow(i)) => error' = error]_vars

\* ------------------------------------------------------- claims, client

\* C11: a call that found the window full (B_eff entries, the oldest
\* recorded at t, none of them older than the window) does not issue its
\* network call before t + W.
C11_RateWindow ==
    \A i \in DOMAIN requests :
       (requests[i].pc = "net" /\ requests[i].fullAt >= 0)
         => requests[i].stamp >= requests[i].fullAt + WINDOW_MS

\* C11 witness: B_eff requests were recorded at instant 0; the next call has
\* waited and its network call is in flight, sent at W plus the buffer
C11_Witness ==
    /\ requests[1].pc = "net" /\ requests[1].fullAt = 0
    /\ requests[1].retryCount = 0
    /\ requests[1].stamp = WINDOW_MS + 1000
    /\ Len(completed) = EFFECTIVE_RATE_LIMIT

InWindow(x) == x >= clock - WINDOW_MS

\* the timestamps of the attempts in flight, added to list
RECURSIVE WithInFlight(_, _)
WithInFlight(list, i) ==
    IF i = 0 THEN list
    ELSE WithInFlight(IF requests[i].pc = "net"
                      THEN Record(list, requests[i].stamp) ELSE list, i - 1)

\* C12: the entries of the window that an admission check counts (those not
\* older than W) are exactly the timestamps of the attempts that succeeded
\* or are still in flight: a failed attempt has been taken out.
C12_FailedNotCounted ==
    SelectSeq(requestTimes, InWindow)
      = SelectSeq(WithInFlight(completed, Len(requests)), InWindow)

\* C12 witness: an attempt recorded at the same instant as the earlier
\* requests has failed and is to be retried; the window holds the earlier
\* requests only
C12_Witness ==
    /\ requests[1].pc = "backoff" /\ requests[1].attempts = 1
    /\ Len(requestTimes) = EFFECTIVE_RATE_LIMIT - 1
    /\ requestTimes = completed

\* C13: one call issues at most 1 + 3 network attempts in the axios client
\* and 1 + 5 in the Gemini client, and when the last of them is rejected for
\* the rate limit the call resolves with an error result.
C13_RetryCap ==
    \A i \in DOMAIN requests :
       LET cap == IF client = "axios" THEN 3 ELSE 5
       IN /\ requests[i].attempts <= 1 + cap
          /\ (requests[i].attempts = 1 + cap /\ requests[i].last = "rate")
               => /\ requests[i].pc = "done"
                  /\ requests[i].error \notin {NoError}

\* C13 witness: the Gemini client has given up after six rejected attempts
C13_Witness ==
    /\ client = "gemini"
    /\ requests[1].pc = "done" /\ requests[1].attempts = 6
    /\ requests[1].last = "rate" /\ requests[1].error = ErrTooMany

\* request i is suspended in a rate-limit wait or in a retry backoff
Suspended(i) == requests[i].pc \in {"wait", "backoff"}

\* C22: generateResponse called with a signal that is already aborted
\* returns 'Generation cancelled' at once: no network attempt, and the window
\* is left as it was.
C22_AlreadyCancelled ==
    [][\A i \in DOMAIN requests :
          (requests[i].pc = "idle"
           /\ Enter(i, [requests[i] EXCEPT !.aborted = TRUE]))
            => /\ requests'[i].pc = "done"
               /\ requests'[i].error = Cancelled
               /\ requests'[i].text = ""
               /\ requests'[i].attempts = 0
               /\ requestTimes' = requestTimes
               /\ clock' = clock]_cvars

\* C22 witness: the call made with an aborted signal on a full window has
\* returned without an attempt, at the instant it was made
C22_Witness ==
    /\ requests[1].pc = "done" /\ requests[1].error = Cancelled
    /\ requests[1].attempts = 0 /\ requests[1].retryCount = 0
    /\ Len(requestTimes) = EFFECTIVE_RATE_LIMIT
    /\ clock = 0

\* C23: a call whose signal is aborted while it is suspended returns at that
\* moment: no time passes while it is still suspended with its signal
\* aborted.
C23_WakesEarly ==
    [][\A i \in DOMAIN requests :
          (Suspended(i) /\ requests[i].aborted) => clock' = clock]_cvars

\* C24: a call whose signal was aborted while it was suspended issues no
\* network attempt and records nothing in the window afterwards; it stays
\* suspended or returns 'Generation cancelled'.
C24_CancelledWhileWaiting ==
    [][\A i \in DOMAIN requests :
          (Suspended(i) /\ requests[i].aborted)
            => /\ requests'[i].attempts = requests[i].attempts
               /\ requestTimes' = requestTimes
               /\ \/ requests'[i] = requests[i]
                  \/ /\ requests'[i].pc = "done"
                     /\ requests'[i].error = Cancelled
                     /\ requests'[i].text = ""]_cvars

\* C24 witness: aborted during the backoff after its first attempt, the
\* call has returned cancelled without a second attempt
C24_Witness ==
    /\ requests[1].pc = "done" /\ requests[1].error = Cancelled
    /\ requests[1].attempts = 1 /\ requests[1].retryCount = 1
    /\ requests[1].last = "rate"

\* C25: the delay before retry a + 1 is max(min(1000 * 2^a, 10000), h_ms),
\* h being the retry-after hint of the rejection (0 when there is none).
C25_RetryDelay ==
    [][\A i \in DOMAIN requests, kind \in FailKinds, h \in RetryAfterSecs :
          (FailAs(i, kind, h) /\ requests'[i].pc = "backoff")
            => requests'[i].wake - clock
                 = Max(Min(1000 * 2^(requests[i].retryCount), 10000), h * 1000)]_cvars

\* C25 witness: the fifth attempt of the Gemini client has failed and the
\* backoff before the retry is the cap, ten seconds
C25_Witness ==
    /\ client = "gemini"
    /\ requests[1].pc = "backoff" /\ requests[1].retryCount = 4
    /\ requests[1].wake = clock + 10000

\* the retry cap of the client in use
RetryCap == IF client = "axios" THEN 3 ELSE 5

\* C26: a failed attempt is retried while under the cap exactly when it is
\* a rate-limit rejection or a transient failure such as a timeout: a call
\* that has returned the error of a rate-limit rejection or of a timeout has
\* used up its retries, and no other failure is ever retried.
C26_FailureClasses ==
    \A i \in DOMAIN requests :
       /\ (requests[i].pc = "done" /\ requests[i].last \in {"rate", "timeout"}
           /\ requests[i].error # Cancelled)
            => requests[i].retryCount >= RetryCap
       /\ requests[i].pc = "backoff" => requests[i].last \in {"rate", "timeout"}

\* C27: an attempt is recorded and sent no sooner than the minimum spacing
\* after the most recent entry of the window.
C27_MinimumSpacing ==
    \A i \in DOMAIN requests :
       (requests[i].pc = "net" /\ Len(requestTimes) >= 2
        /\ requestTimes[Len(requestTimes)] = requests[i].stamp)
         => requests[i].stamp - requestTimes[Len(requestTimes) - 1]
              >= MIN_REQUEST_INTERVAL

\* C28: a call never returns a success with an empty text.
C28_EmptyIsFailure ==
    \A i \in DOMAIN requests :
       (requests[i].pc = "done" /\ requests[i].error = NoError)
         => requests[i].text # ""

\* C36: the number of recorded timestamps younger than the window never
\* exceeds the effective limit, also when two calls share the window.
C36_SharedOccupancy ==
    Cardinality({k \in DOMAIN requestTimes : requestTimes[k] > clock - WINDOW_MS})
      <= EFFECTIVE_RATE_LIMIT

\* ----------------------------------------------------- claims, Controls

LiveNext ==
    {i \in 1..Len(calls') : calls'[i].status = "pending"
                            /\ controllers'[calls'[i].ctl] = "live"}

\* C15: a step that starts a new completion call leaves no earlier call with
\* a token that is not cancelled, and at most one issued call has such a
\* token, before and after every step.
C15_NewCallCancelsPrevious ==
    [][/\ Cardinality(LiveNow) <= 1
       /\ Cardinality(LiveNext) <= 1
       /\ IssuedNow # {}
            => \A i \in LiveNow :
                  \/ calls'[i].status = "done"
                  \/ controllers'[calls[i].ctl] # "live"]_vars

\* C15 witness: a call was started while another one was still current; the
\* earlier one is pending with its token cancelled by the newer turn
C15_Witness ==
    /\ \E i \in PendingNow : CancelledBy(i) = "turn"
    /\ Cardinality(LiveNow) = 1

\* C16: left to itself with a provider that always answers, the transcript
\* grows: for every n up to the bound of the model, eventually it holds at
\* least n messages.
C16_PerpetualDialogue ==
    \A n \in 1..MaxMsgs : <>(Len(messages) >= n)

\* C16 witness: the transcript is full, the agents alternate and the timer
\* of the next turn is armed
C16_Witness ==
    /\ Len(messages) = MaxMsgs
    /\ messages[1].agent = "agent1"
    /\ messages[MaxMsgs].agent = CurrentAgent(messages[MaxMsgs - 1])
    /\ timers # {}

\* C17: pause issued while a call is in flight or a timer is armed leaves
\* the transcript as it was; right after it the session is paused, no timer
\* is armed and the token of the call that was in flight is cancelled.
C17_PauseCancels ==
    [][(lastOp'.op = "pause" /\ (LiveNow # {} \/ timers # {}))
         => /\ messages' = messages
            /\ isPaused' /\ pausedRef'
            /\ timers' = {} /\ timeoutRef' = 0
            /\ calls' = calls
            /\ \A i \in LiveNow : controllers'[calls[i].ctl] = "pause"]_vars

\* C17 witness: the session is paused, the call that was in flight is
\* still unresolved and its token is cancelled
C17_Witness ==
    /\ lastOp = [op |-> "pause", info |-> "call"]
    /\ isPaused /\ timers = {}
    /\ \E i \in PendingNow : CancelledBy(i) = "pause" /\ calls[i].kind = "turn"

\* C18: resume with an empty transcript issues what start() issues, the one
\* request that opens the turn of Agent1 with a generated topic; with a
\* non-empty transcript it issues one turn, for the agent whose turn it is,
\* whose prompt is the text of the last message.
C18_ResumeContinues ==
    [][(lastOp'.op = "resume")
         => /\ messages' = messages
            /\ Len(calls') = Len(calls) + 1
            /\ calls'[Len(calls')].status = "pending"
            /\ controllers'[calls'[Len(calls')].ctl] = "live"
            /\ IF messages = <<>>
               THEN /\ calls'[Len(calls')].kind = "topic"
                    /\ calls'[Len(calls')].agent = "agent1"
                    /\ calls'[Len(calls')].prompt = TopicRequest
                    /\ calls'[Len(calls')].persona = TopicPersona
               ELSE /\ calls'[Len(calls')].kind = "turn"
                    /\ calls'[Len(calls')].prompt = messages[Len(messages)].text
                    /\ calls'[Len(calls')].agent
                         = OtherAgent(messages[Len(messages)].agent)]_vars

\* C18 witness: resumed on the empty transcript, the opening request is in
\* flight again
C18_Witness ==
    /\ lastOp.op = "resume"
    /\ messages = <<>>
    /\ Len(calls) >= 2
    /\ calls[Len(calls)].kind = "topic" /\ calls[Len(calls)].status = "pending"

\* C19: a submit made when no call is in flight (a timer is armed, or the
\* loop has stopped after an error) clears the timer, appends the one
\* message {text, agent1} and issues the one attempt for Agent2, with the
\* persona of Agent2 and the text as prompt.
C19_SubmitWhenIdle ==
    [][(lastOp'.op = "submit" /\ PendingNow = {}
        /\ (timers # {} \/ error # NoError))
         => /\ timers' = {} /\ timeoutRef' = 0
            /\ Len(messages') = Len(messages) + 1
            /\ SubSeq(messages', 1, Len(messages)) = messages
            /\ messages'[Len(messages')].agent = "agent1"
            /\ messages'[Len(messages')].text \in OpTexts
            /\ Len(calls') = Len(calls) + 1
            /\ calls'[Len(calls')].status = "pending"
            /\ calls'[Len(calls')].agent = "agent2"
            /\ calls'[Len(calls')].persona = PersonaName(selectedPersonas["agent2"])
            /\ calls'[Len(calls')].prompt = messages'[Len(messages')].text]_vars

\* C19 witness: the operator's text follows the message of Agent1 whose
\* timer was armed; the attempt for Agent2 is in flight and no timer is left
C19_Witness ==
    /\ lastOp = [op |-> "submit", info |-> "accepted"]
    /\ Len(messages) = 2
    /\ messages[2].text \in OpTexts
    /\ timers = {}
    /\ \E i \in LiveNow : calls[i].kind = "submit"

\* C20: a submit accepted while the session is paused un-pauses it: when
\* the completion it started resolves with its token not cancelled (with a
\* text, with an empty answer or with a failure), isPaused and pausedRef are
\* false.
C20_SubmitUnpauses ==
    [][\A i \in LiveNow :
          (Resolves(i) /\ calls[i].kind = "submit" /\ isPaused)
            => (~isPaused' /\ ~pausedRef')]_vars

\* the provider answers with the text t
Ok(t) == [kind |-> "ok", text |-> t]

\* C21: when a completion succeeds for agent X while the session is not
\* paused, the message {text, X} is appended, exactly one timer is armed and
\* no attempt is issued; no attempt is issued by a step that leaves the timer
\* armed; and the timer that fires issues one attempt for the other agent
\* whose prompt is the text appended last.
C21_SuccessArmsTimer ==
    [][/\ \A i \in LiveNow, t \in RespTexts :
            (ResolveAs(i, Ok(t)) /\ calls[i].kind # "topic" /\ ~isPaused)
              => /\ messages' = Append(messages, Message(t, calls[i].agent))
                 /\ Cardinality(timers') = 1
                 /\ \A x \in timers' : x.prev = Message(t, calls[i].agent)
                 /\ IssuedNow = {}
       /\ (timers # {} /\ timers \subseteq timers') => IssuedNow = {}
       /\ (lastOp'.op = "timer")
            => /\ timers' = {}
               /\ Len(calls') = Len(calls) + 1
               /\ calls'[Len(calls')].status = "pending"
               /\ calls'[Len(calls')].agent
                    = OtherAgent(messages[Len(messages)].agent)
               /\ calls'[Len(calls')].prompt = messages[Len(messages)].text]_vars

\* C21 witness: the timer armed by Agent1's message has fired and the
\* attempt for Agent2 is in flight with that message as prompt
C21_Witness ==
    /\ lastOp.op = "timer"
    /\ Len(messages) = 1 /\ messages[1].agent = "agent1"
    /\ timers = {}
    /\ \E i \in LiveNow : /\ calls[i].kind = "turn"
                          /\ calls[i].prompt = messages[1].text

\* C29: an attempt issued for agent X by an inter-turn timer carries the
\* persona configured for X at the moment it is issued.
C29_PersonaAtIssue ==
    [][(lastOp'.op = "timer")
         => \A j \in IssuedNow :
               calls'[j].persona
                 = PersonaName(selectedPersonas'[calls'[j].agent])]_vars

\* C30: once the view is unmounted no message is appended, no error is set
\* and no attempt is issued, by the unmount itself or by any call or timer
\* that was outstanding.
C30_Teardown ==
    [][(phase' = "unmounted")
         => /\ messages' = messages
            /\ error' = error
            /\ IssuedNow = {}
            /\ timers' \subseteq timers
            /\ LiveNext = {}]_vars

\* C30 witness: the call that was in flight at the unmount has resolved
C30_Witness ==
    /\ phase = "unmounted"
    /\ lastOp = [op |-> "resolve", info |-> "unmount"]
    /\ PendingNow = {}
    /\ calls # <<>>

\* C31: the transcript is append-only between resets: a step leaves it as
\* it is, appends one message at its end, or (reset only) empties it.
C31_AppendOnly ==
    [][\/ messages' = messages
       \/ /\ Len(messages') = Len(messages) + 1
          /\ SubSeq(messages', 1, Len(messages)) = messages
       \/ /\ lastOp'.op = "reset"
          /\ messages' = <<>>]_vars

\* C31 witness: the operator's text has been appended behind the message of
\* a scheduled turn and its answer is awaited
C31_Witness ==
    /\ Len(messages) = 2
    /\ messages[1].text \in RespTexts
    /\ messages[2].text \in OpTexts
    /\ lastOp = [op |-> "submit", info |-> "accepted"]

\* C32: the flag the turn logic tests equals the paused status shown to the
\* operator.
C32_PausedFlagsAgree ==
    pausedRef = isPaused

\* C33: while a call started by the scheduler (start, timer, resume, reset)
\* is in flight with its token not cancelled, the generating flag and the
\* generating indicator are true.
C33_GeneratingFlag ==
    \A i \in LiveNow :
       calls[i].kind # "submit" => (isGeneratingRef /\ isLoading)

\* C34: after a reset, unless the operator pauses, eventually the opening
\* request of a fresh dialogue is in flight on the empty transcript.
C34_ResetRestarts ==
    (lastOp.op = "reset")
      ~> (\/ isPaused
          \/ /\ messages = <<>>
             /\ \E i \in LiveNow : calls[i].kind = "topic")

\* C35: at most one inter-turn timer is armed, and none while a call is in
\* flight whose token is not cancelled.
C35_OneTimerNoCall ==
    /\ Cardinality(timers) <= 1
    /\ timers # {} => LiveNow = {}

\* C35 witness: a timer is armed while a call cancelled earlier has still
\* not resolved
C35_Witness ==
    /\ Cardinality(timers) = 1
    /\ PendingNow # {}
    /\ timeoutRef # 0

\* C37: selectPersona changes the persona of that agent only: the
\* transcript, the paused status, lastError, the calls in flight and the
\* armed timer stay as they are and no attempt is issued.
C37_PersonaSelectFrame ==
    [][(lastOp'.op = "persona")
         => /\ Cardinality({a \in Agents :
                              selectedPersonas'[a] # selectedPersonas[a]}) = 1
            /\ messages' = messages
            /\ isPaused' = isPaused
            /\ error' = error
            /\ calls' = calls
            /\ controllers' = controllers
            /\ timers' = timers]_vars

TypeOK ==
    /\ isLoading \in BOOLEAN /\ isPaused \in BOOLEAN
    /\ abortControllerRef \in 0..Len(controllers)
    /\ \A i \in 1..Len(calls) : calls[i].status = "pending" =>
                                   calls[i].ctl \in 1..Len(controllers)
====
